---- MODULE Spec2Model ----
(***************************************************************************)
(* SH-SDS host security scanner: the compliance checks of sysguard.rs      *)
(* (GuardItem::check, GuardCell) and the scan paths of main.rs             *)
(* (host_security_panel, saveas, the button callbacks).                    *)
(*                                                                         *)
(* A Rust String is modelled as a sequence of tokens (TLA+ strings); the   *)
(* empty String is <<>>.  Configuration files are sequences of lines; a    *)
(* line is a token sequence where the check echoes it, and a record of its *)
(* lexical parts where the check only parses it.  Numbers in files are     *)
(* digit sequences, so that parse::<i32>() and friends can fail.           *)
(* The Chinese UI texts are written in English (the source's own comment   *)
(* translations); the marks U+2713 / U+2717 are written "v" / "x".         *)
(***************************************************************************)
EXTENDS Integers, Sequences, FiniteSets, TLC

VARIABLES
    sys,        \* the host: command outputs, interfaces, ports in use, failing calls
    held,       \* loopback ports on which the scanner itself holds a listener
    self,       \* the GuardItem a direct check() call is made on
    last,       \* what that check() call returned
    gc,         \* a GuardCell under a sequence of add calls
    adds,       \* the add calls made on gc so far, oldest first
    got,        \* the last get call on gc: its key and what it returned
    gui,        \* the window: program position, which widgets are visible
    panel,      \* the results panel built at start-up
    export,     \* the last export (saveas)
    changes     \* how often the host changed since the program started

vars == <<sys, held, self, last, gc, adds, got, gui, panel, export, changes>>

\* ---------------------------------------------------------------- bounds
MaxLines == 2
MaxAdds == 3

\* ------------------------------------------------- strings and numbers
IsSpace(t) == t \in {" ", "\n", "\r", "\t"}

RECURSIVE trim_start(_)
trim_start(s) ==
    IF s # <<>> /\ IsSpace(Head(s)) THEN trim_start(Tail(s)) ELSE s

RECURSIVE trim_end(_)
trim_end(s) ==
    IF s # <<>> /\ IsSpace(s[Len(s)]) THEN trim_end(SubSeq(s, 1, Len(s) - 1)) ELSE s

trim(s) == trim_end(trim_start(s))

replace(s, from, to) == [i \in 1..Len(s) |-> IF s[i] = from THEN to ELSE s[i]]

RECURSIVE join(_, _)
join(list, sep) ==
    IF list = <<>> THEN <<>>
    ELSE IF Len(list) = 1 THEN list[1]
    ELSE list[1] \o <<sep>> \o join(Tail(list), sep)

RECURSIVE DigitVal(_)
DigitVal(ds) ==
    IF ds = <<>> THEN 0 ELSE 10 * DigitVal(SubSeq(ds, 1, Len(ds) - 1)) + ds[Len(ds)]

RECURSIVE StripZeros(_)
StripZeros(ds) ==
    IF Len(ds) > 1 /\ Head(ds) = 0 THEN StripZeros(Tail(ds)) ELSE ds

RECURSIVE LexLE(_, _)
LexLE(a, b) ==
    \/ a = <<>>
    \/ Head(a) < Head(b)
    \/ Head(a) = Head(b) /\ LexLE(Tail(a), Tail(b))

\* the decimal digits ds denote a number <= the number the digits max denote
Fits(ds, max) ==
    LET d == StripZeros(ds)
    IN Len(d) < Len(max) \/ (Len(d) = Len(max) /\ LexLE(d, max))

\* The number the digits denote.  A number of ten or more digits is
\* represented by 10^9: the code compares parsed numbers only with
\* 5, 8, 54, 180 and 600, so all numbers >= 10^9 behave alike.
NumVal(ds) ==
    LET d == StripZeros(ds) IN IF Len(d) <= 9 THEN DigitVal(d) ELSE 1000000000

None == [some |-> FALSE, v |-> 0]
Some(x) == [some |-> TRUE, v |-> x]

\* str::parse::<i32>() of an optional minus sign followed by digits
parse_i32(neg, ds) ==
    IF ds = <<>> THEN None
    ELSE IF neg
    THEN (IF Fits(ds, <<2,1,4,7,4,8,3,6,4,8>>) THEN Some(0 - NumVal(ds)) ELSE None)
    ELSE (IF Fits(ds, <<2,1,4,7,4,8,3,6,4,7>>) THEN Some(NumVal(ds)) ELSE None)

parse_u32(ds) ==
    IF ds = <<>> THEN None
    ELSE IF Fits(ds, <<4,2,9,4,9,6,7,2,9,5>>) THEN Some(NumVal(ds)) ELSE None

\* usize is 64 bits wide on the Linux hosts the scanner targets
parse_usize(ds) ==
    IF ds = <<>> THEN None
    ELSE IF Fits(ds, <<1,8,4,4,6,7,4,4,0,7,3,7,0,9,5,5,1,6,1,5>>) THEN Some(NumVal(ds))
    ELSE None

rev(s) == [i \in 1..Len(s) |-> s[Len(s) + 1 - i]]

\* ------------------------------------------------------------- Mark
OK == "OK"
ERR == "ERR"

as_str(m) == IF m = OK THEN "v" ELSE "x"

Mark_from(b) == IF b THEN OK ELSE ERR

\* ---------------------------------------------------------- GuardCell
GuardCell_new == [k \in {} |-> <<>>]

add_keep_first(cell, pos, val) ==
    IF pos \in DOMAIN cell THEN cell
    ELSE [k \in DOMAIN cell \cup {pos} |-> IF k = pos THEN val ELSE cell[k]]

add(cell, pos, val) ==
    [k \in DOMAIN cell \cup {pos} |-> IF k = pos THEN val ELSE cell[k]]

get(cell, pos) == IF pos \in DOMAIN cell THEN cell[pos] ELSE <<>>

\* a sequence of cell.add(pos, val) calls, applied in order to a cell
RECURSIVE add_all(_, _)
add_all(cell, calls) ==
    IF calls = <<>> THEN cell
    ELSE add_all(add(cell, calls[1][1], calls[1][2]), Tail(calls))

\* --------------------------------------------------------------- the host
\* Every util::runcmd call of sysguard.rs: its command line and the source
\* line that makes the call.
CallSites == {
    <<"cat /etc/issue", 80>>,
    <<"bash -i -c 'umask'", 106>>,
    <<"cat /etc/passwd", 122>>,
    <<"cat /etc/passwd", 133>>,
    <<"cat /etc/login.defs", 168>>,
    <<"cat /etc/pam.d/system-auth", 194>>,
    <<"cat /etc/profile", 250>>,
    <<"chkconfig --list", 362>>,
    <<"cat /etc/ssh/sshd_config", 425>>,
    <<"cat /etc/logrotate.conf", 443>>,
    <<"service sshd status", 463>>,
    <<"service rsyslog status", 463>>,
    <<"service auditd status", 463>>,
    <<"auditctl -l", 477>>,
    <<"cat /etc/sysconfig/iptables", 528>>,
    <<"cat /etc/profile", 549>>
}

Commands == {site[1] : site \in CallSites}

Err == [ok |-> FALSE, r |-> <<>>]
Ok(text) == [ok |-> TRUE, r |-> text]

\* util::runcmd(cmdline, None), called at source line `line`, on host s:
\* the captured standard output, or a collection failure.
runcmd(s, cmdline, line) ==
    IF <<cmdline, line>> \in s.fail THEN Err ELSE Ok(s.out[cmdline])

\* str::starts_with / str::ends_with on a line of tokens (the line trimmed):
\* each token is listed with the prefixes and suffixes the code asks about.
PrefixesOf(tok) ==
    {tok} \cup (CASE tok = "rootadm" -> {"root"}
                  [] tok = "SyslogFacility AUTHPRIV" -> {"SyslogFacility AUTH"}
                  [] OTHER -> {})

SuffixesOf(tok) ==
    {tok} \cup (CASE tok = "/sbin/nologin" -> {"/nologin"}
                  [] tok = "/bin/false" -> {"/false"}
                  [] OTHER -> {})

starts_with(line, prefix) == line # <<>> /\ prefix \in PrefixesOf(line[1])

ends_with(line, suffix) == line # <<>> /\ suffix \in SuffixesOf(line[Len(line)])

\* all texts of at most MaxLines lines drawn from the set L
Texts(L) == UNION {[1..n -> L] : n \in 0..MaxLines}

\* concatenation of a sequence of sequences
RECURSIVE concat(_)
concat(ss) == IF ss = <<>> THEN <<>> ELSE Head(ss) \o concat(Tail(ss))

\* a check() call: whether it panicked, the GuardCell it returned (empty
\* when it panicked), the listeners the scanner holds afterwards, and the
\* history of its port probes (the Port check only)
Returned(calls, h) ==
    [panic |-> FALSE, cell |-> add_all(GuardCell_new, calls), held |-> h, calls |-> calls,
     probes |-> <<>>]
Panicked(h) ==
    [panic |-> TRUE, cell |-> GuardCell_new, held |-> h, calls |-> <<>>, probes |-> <<>>]

\* ------------------------------------------------------------ GuardItem
GuardItems == {"OS", "IP", "UserMgmt", "PasswdComplexity", "OperationTimeout",
               "Port", "Audit", "IPTables", "Service", "CommandHistory"}

\* ---- GuardItem::OS
\* as check_OS, without the add of the default "" when /etc/issue cannot be read
check_OS_no_default(s, h) ==
    LET res == runcmd(s, "cat /etc/issue", 80)
    IN IF res.ok
       THEN Returned(<< <<"A4", <<"operating system">> >>,
                        <<"B4", replace(replace(trim(res.r), "\r", " "), "\n", " ")>> >>, h)
       ELSE Returned(<< <<"A4", <<"operating system">> >> >>, h)

\* as check_OS, with the result of runcmd unwrapped
check_OS_unwrap(s, h) ==
    LET res == runcmd(s, "cat /etc/issue", 80)
    IN IF res.ok
       THEN Returned(<< <<"A4", <<"operating system">> >>,
                        <<"B4", replace(replace(trim(res.r), "\r", " "), "\n", " ")>> >>, h)
       ELSE Panicked(h)

check_OS(s, h) ==
    LET res == runcmd(s, "cat /etc/issue", 80)
        B4 == IF res.ok THEN replace(replace(trim(res.r), "\r", " "), "\n", " ")
              ELSE <<>>
    IN Returned(<< <<"A4", <<"operating system">> >>, <<"B4", B4>> >>, h)

\* ---- GuardItem::IP
\* an interface is the sequence of its addresses, each [v4, ip]
iface_ips(iface) ==
    LET v4 == SelectSeq(iface, LAMBDA x : x.v4)
        strs == [i \in 1..Len(v4) |-> v4[i].ip]
    IN SelectSeq(strs, LAMBDA x : x # "127.0.0.1")

\* check_IP writing the address list under the key of the OS check
check_IP_key_B4(s, h) ==
    LET per_iface == [i \in 1..Len(s.ifaces) |-> iface_ips(s.ifaces[i])]
        iplist == concat(per_iface)
        B5 == join([i \in 1..Len(iplist) |-> <<iplist[i]>>], ";")
    IN Returned(<< <<"A5", <<"device IP">> >>, <<"B4", B5>> >>, h)

check_IP(s, h) ==
    LET per_iface == [i \in 1..Len(s.ifaces) |-> iface_ips(s.ifaces[i])]
        iplist == concat(per_iface)
        B5 == join([i \in 1..Len(iplist) |-> <<iplist[i]>>], ";")
    IN Returned(<< <<"A5", <<"device IP">> >>, <<"B5", B5>> >>, h)

\* ---- GuardItem::UserMgmt
B8_text(mark) ==
    <<"[  ]expired, useless and hidden accounts are deleted or locked\n[",
      as_str(mark), "]each user has permissions set as required\n">>

B9_text(mark) ==
    <<"[", as_str(mark), "]no default user name such as root, superadmin, administrator">>

passwd_retained(x) ==
    /\ ~ends_with(trim(x), "/nologin")
    /\ ~ends_with(trim(x), "/false")
    /\ ~starts_with(trim(x), "#")

check_UserMgmt(s, h) ==
    LET um == runcmd(s, "bash -i -c 'umask'", 106)
        mark8 == IF um.ok THEN Mark_from(trim(um.r) = <<"0022">>) ELSE Mark_from(FALSE)
        r1 == runcmd(s, "cat /etc/passwd", 122)
        users == IF r1.ok THEN join(SelectSeq(r1.r, passwd_retained), "\n") ELSE <<>>
        r2 == runcmd(s, "cat /etc/passwd", 133)
        mark9 == IF r2.ok
                 THEN (IF SelectSeq(r2.r, LAMBDA x : starts_with(trim(x), "root")) # <<>>
                       THEN Mark_from(FALSE) ELSE Mark_from(TRUE))
                 ELSE Mark_from(FALSE)
    IN Returned(<< <<"A8", <<"user management">> >>,
                   <<"B8", B8_text(mark8)>>,
                   <<"C9", users>>,
                   <<"B9", B9_text(mark9)>> >>, h)

\* ---- GuardItem::PasswdComplexity
\* a line of /etc/login.defs: [key, sep, val], the separator between key and
\* value being a tab or spaces and val the digits of the value (may be <<>>)
Passwd_default == [minimum_size |-> 0, is_strong_combination |-> FALSE, update_cycle |-> 99999]

get_value(line) ==
    IF line.sep = "\t" THEN parse_u32(line.val) ELSE None

RECURSIVE login_defs_scan(_, _)
login_defs_scan(lines, passwd) ==
    IF lines = <<>> THEN passwd
    ELSE LET line == Head(lines)
             v == get_value(line)
             p1 == IF line.key = "PASS_MIN_LEN" /\ v.some
                   THEN [passwd EXCEPT !.minimum_size = v.v] ELSE passwd
             p2 == IF line.key = "PASS_MAX_DAYS" /\ v.some
                   THEN [p1 EXCEPT !.update_cycle = v.v] ELSE p1
         IN login_defs_scan(Tail(lines), p2)

\* a line of /etc/pam.d/system-auth: [head, args]; an argument is
\* [name, spaced, neg, digits] for the text  name=-digits  (spaced: with
\* blanks around "=", neg: with the minus sign)
credit_re_matches(arg) ==
    /\ arg.name \in {"dcredit", "ucredit", "lcredit", "ocredit"}
    /\ arg.neg
    /\ arg.digits # <<>>

\* the (name, value) the code inserts for a captured argument: split("=")
\* keeps the blanks, so a spaced name is another key and a spaced value
\* does not parse
credit_entry(arg) ==
    LET v == IF arg.spaced THEN None ELSE parse_i32(TRUE, arg.digits)
    IN [key |-> <<arg.name, arg.spaced>>, value |-> IF v.some THEN v.v ELSE 0]

RECURSIVE credits_of(_, _)
credits_of(args, credits) ==
    IF args = <<>> THEN credits
    ELSE LET e == credit_entry(Head(args))
         IN credits_of(Tail(args),
                IF credit_re_matches(Head(args))
                THEN [k \in DOMAIN credits \cup {e.key} |->
                        IF k = e.key THEN e.value ELSE credits[k]]
                ELSE credits)

cond(credits, k) == IF <<k, FALSE>> \in DOMAIN credits THEN credits[<<k, FALSE>>] ELSE 0

\* as is_strong_combination, with the credits of the last pam_cracklib line
is_strong_combination_last_line(text) ==
    LET credit_lines == SelectSeq(text, LAMBDA x : x.head = "password requisite pam_cracklib.so")
        credits == IF credit_lines # <<>>
                   THEN credits_of(credit_lines[Len(credit_lines)].args, [k \in {} |-> 0])
                   ELSE [k \in {} |-> 0]
    IN /\ cond(credits, "ucredit") <= -2
       /\ cond(credits, "lcredit") <= -1
       /\ cond(credits, "dcredit") <= -4
       /\ cond(credits, "ocredit") <= -1

is_strong_combination(text) ==
    LET credit_lines == SelectSeq(text, LAMBDA x : x.head = "password requisite pam_cracklib.so")
        credits == IF credit_lines # <<>>
                   THEN credits_of(credit_lines[1].args, [k \in {} |-> 0])
                   ELSE [k \in {} |-> 0]
    IN /\ cond(credits, "ucredit") <= -2
       /\ cond(credits, "lcredit") <= -1
       /\ cond(credits, "dcredit") <= -4
       /\ cond(credits, "ocredit") <= -1

B10_text(m1, m2, m3) ==
    <<"[", as_str(m1), "]password length not less than 8\n[",
      as_str(m2), "]mixed combination of letters, digits and special characters\n",
      "[  ]password differs from the user name\n[",
      as_str(m3), "]password update cycle 180 days\n">>

\* as check_PasswdComplexity, giving up on the first unreadable file
check_PasswdComplexity_coupled(s, h) ==
    LET r1 == runcmd(s, "cat /etc/login.defs", 168)
        r2 == runcmd(s, "cat /etc/pam.d/system-auth", 194)
        p1 == IF r1.ok /\ r2.ok THEN login_defs_scan(r1.r, Passwd_default) ELSE Passwd_default
        passwd == IF r1.ok /\ r2.ok /\ is_strong_combination(r2.r)
                  THEN [p1 EXCEPT !.is_strong_combination = TRUE] ELSE p1
    IN Returned(<< <<"A10", <<"password complexity configuration">> >>,
                   <<"B10", B10_text(Mark_from(passwd.minimum_size >= 8),
                                     Mark_from(passwd.is_strong_combination),
                                     Mark_from(passwd.update_cycle <= 180))>> >>, h)

check_PasswdComplexity(s, h) ==
    LET r1 == runcmd(s, "cat /etc/login.defs", 168)
        p1 == IF r1.ok THEN login_defs_scan(r1.r, Passwd_default) ELSE Passwd_default
        r2 == runcmd(s, "cat /etc/pam.d/system-auth", 194)
        passwd == IF r2.ok /\ is_strong_combination(r2.r)
                  THEN [p1 EXCEPT !.is_strong_combination = TRUE] ELSE p1
    IN Returned(<< <<"A10", <<"password complexity configuration">> >>,
                   <<"B10", B10_text(Mark_from(passwd.minimum_size >= 8),
                                     Mark_from(passwd.is_strong_combination),
                                     Mark_from(passwd.update_cycle <= 180))>> >>, h)

\* ---- GuardItem::OperationTimeout
\* a line of /etc/profile: [hash, name, digits] for the text  name=digits,
\* hash: the line starts with "#"
re_TMOUT_matches(line) == line.name = "TMOUT" /\ line.digits # <<>>

RECURSIVE tmout_scan(_, _)
tmout_scan(lines, tmout) ==
    IF lines = <<>> THEN tmout
    ELSE tmout_scan(Tail(lines),
            IF re_TMOUT_matches(Head(lines))
            THEN [some |-> TRUE, v |-> Head(lines).digits] ELSE tmout)

B11_text(mark) ==
    <<"[", as_str(mark), "]operation timeout set to 10 minutes or less">>

check_OperationTimeout(s, h) ==
    LET r == runcmd(s, "cat /etc/profile", 250)
        tmout == IF r.ok THEN tmout_scan(rev(r.r), [some |-> FALSE, v |-> <<>>])
                 ELSE [some |-> FALSE, v |-> <<>>]
        v == IF tmout.some THEN parse_i32(FALSE, tmout.v) ELSE None
        mark == IF v.some /\ v.v <= 600 THEN OK ELSE ERR
    IN Returned(<< <<"A11", <<"terminal operation timeout lock">> >>,
                   <<"B11", B11_text(mark)>> >>, h)

\* ---- GuardItem::Port
tcp_port_list == <<135, 137, 138, 139, 445, 3389>>

\* TcpListener::bind(("127.0.0.1", port)): fails iff the port is in use, by
\* another program or by a listener the scanner still holds
bind(s, h, port) == port \notin (s.occupied \cup h)

\* The closure is_tcp_port_opened: whether the bind succeeded, the listeners
\* the scanner holds while the match is evaluated (bound) and those it holds
\* when the closure returns (held).  The bound listener is a temporary of
\* the match (Ok(_)), dropped before the closure returns.
is_tcp_port_opened_leak(s, h, port) ==
    [opened |-> bind(s, h, port),
     bound |-> IF bind(s, h, port) THEN h \cup {port} ELSE h,
     held |-> IF bind(s, h, port) THEN h \cup {port} ELSE h]

is_tcp_port_opened(s, h, port) ==
    [opened |-> bind(s, h, port),
     bound |-> IF bind(s, h, port) THEN h \cup {port} ELSE h,
     held |-> h]

\* the loop over tcp_port_list keeping every listener it binds until the
\* loop ends
RECURSIVE port_scan_release_at_end(_, _, _, _)
port_scan_release_at_end(s, ports, mp, h) ==
    IF ports = <<>>
    THEN [mp |-> mp, held |-> h \ {tcp_port_list[i] : i \in 1..Len(tcp_port_list)},
          probes |-> <<>>]
    ELSE LET h2 == IF bind(s, h, Head(ports)) THEN h \cup {Head(ports)} ELSE h
             rest == port_scan_release_at_end(s, Tail(ports),
                        IF bind(s, h, Head(ports)) THEN mp \cup {Head(ports)} ELSE mp, h2)
         IN [rest EXCEPT !.probes =
                << [port |-> Head(ports), before |-> h, bound |-> h2, after |-> h2] >>
                \o rest.probes]

\* the loop over tcp_port_list: the ports whose bind succeeded (mp), the
\* listeners held at its end, and for each probe in turn the listeners the
\* scanner held before it, during it and after it
RECURSIVE port_scan(_, _, _, _)
port_scan(s, ports, mp, h) ==
    IF ports = <<>> THEN [mp |-> mp, held |-> h, probes |-> <<>>]
    ELSE LET p == is_tcp_port_opened(s, h, Head(ports))
             rest == port_scan(s, Tail(ports),
                               IF p.opened THEN mp \cup {Head(ports)} ELSE mp, p.held)
         IN [rest EXCEPT !.probes =
                << [port |-> Head(ports), before |-> h, bound |-> p.bound,
                    after |-> p.held] >> \o rest.probes]

B14_text(m) ==
    <<"[", as_str(m[1]), "]close 135\n[", as_str(m[2]), "]close 137\n[",
      as_str(m[3]), "]close 138\n[", as_str(m[4]), "]close 139\n[",
      as_str(m[5]), "]close 445\n[", as_str(m[6]), "]close 3389\n">>

check_Port(s, h) ==
    LET scan == port_scan(s, tcp_port_list, {}, h)
        marks == [i \in 1..Len(tcp_port_list) |->
                    Mark_from(tcp_port_list[i] \notin scan.mp)]
    IN [Returned(<< <<"A14", <<"high risk ports closed">> >>,
                    <<"B14", B14_text(marks)>> >>, scan.held)
          EXCEPT !.probes = scan.probes]

\* ---- GuardItem::Service
\* A line of `chkconfig --list` after split("\t") and the removal of blank
\* items: [name, levels], levels[i] being the status text of the i-th
\* runlevel item, i.e. of runlevel i-1: "on", "off" (the off keyword), or ""
\* for an item without ":".
parse(line) ==
    IF 1 + Len(line.levels) # 8 THEN [some |-> FALSE, name |-> "", switches |-> <<>>]
    ELSE [some |-> TRUE, name |-> line.name,
          switches |-> [idx \in 1..7 |-> line.levels[idx] # "off"]]

service_name_main_list ==
    <<"sendmail", "postfix", "ftp", "vsftpd", "telnet", "rlogin", "netbios",
      "dhcpd", "smb", "samba", "snmpd", "xdmcp", "vncserver">>

service_name_extra_list ==
    <<"bluetooth", "rwho", "sh", "rsh", "rexec", "sendmail", "tftp", "http",
      "nfs", "smtp">>

contains(seq, x) == \E i \in 1..Len(seq) : seq[i] = x

\* switches is 0-based in the code: switches[2..5] are the third to sixth
\* runlevel items
is_service_enabeld_3to6(switches) ==
    switches[4] /\ switches[5] /\ switches[6] /\ switches[7]

is_service_enabeld(switches) ==
    switches[3] /\ switches[4] /\ switches[5] /\ switches[6]

\* chkconfig_scan recording for an enabled extra-list service the
\* "minimum_service" entry only, not the service's name
RECURSIVE chkconfig_scan_no_name(_, _)
chkconfig_scan_no_name(lines, mp) ==
    IF lines = <<>> THEN mp
    ELSE LET p == parse(Head(lines))
             en == p.some /\ is_service_enabeld(p.switches)
             m1 == IF en /\ contains(service_name_main_list, p.name)
                   THEN mp \cup {p.name} ELSE mp
             m2 == IF en /\ contains(service_name_extra_list, p.name)
                   THEN m1 \cup {"minimum_service"} ELSE m1
         IN chkconfig_scan_no_name(Tail(lines), m2)

RECURSIVE chkconfig_scan(_, _)
chkconfig_scan(lines, mp) ==
    IF lines = <<>> THEN mp
    ELSE LET p == parse(Head(lines))
             en == p.some /\ is_service_enabeld(p.switches)
             m1 == IF en /\ contains(service_name_main_list, p.name)
                   THEN mp \cup {p.name} ELSE mp
             m2 == IF en /\ contains(service_name_extra_list, p.name)
                   THEN m1 \cup {"minimum_service", p.name} ELSE m1
         IN chkconfig_scan(Tail(lines), m2)

B15_text(m) ==
    <<"[", as_str(m[1]), "]E-Mail\n[", as_str(m[2]), "]FTP\n[",
      as_str(m[3]), "]telnet\n[", as_str(m[4]), "]rlogin\n[",
      as_str(m[5]), "]NetBIOS\n[", as_str(m[6]), "]DHCP\n[",
      as_str(m[7]), "]SMB\n[", as_str(m[8]), "]SNMPV3 and below versions\n[",
      as_str(m[9]), "]Remote desktop\n[",
      as_str(m[10]), "]Close other non essential services\n">>

check_Service(s, h) ==
    LET r == runcmd(s, "chkconfig --list", 362)
        mp == IF r.ok THEN chkconfig_scan(r.r, {}) ELSE {}
        extra_open_service_list == SelectSeq(service_name_extra_list, LAMBDA n : n \in mp)
        desc == IF Len(extra_open_service_list) > 0
                THEN <<"the following services are not closed: ">>
                     \o join([i \in 1..Len(extra_open_service_list) |->
                                <<extra_open_service_list[i]>>], ", ")
                ELSE <<>>
        marks == << Mark_from(~("sendmail" \in mp \/ "postfix" \in mp)),
                    Mark_from(~("ftp" \in mp \/ "vsftpd" \in mp)),
                    Mark_from("telnet" \notin mp),
                    Mark_from("rlogin" \notin mp),
                    Mark_from("netbios" \notin mp),
                    Mark_from("dhcpd" \notin mp),
                    Mark_from(~("smb" \in mp \/ "samba" \in mp)),
                    Mark_from("snmpd" \notin mp),
                    Mark_from(~("xdmcp" \in mp \/ "vncserver" \in mp)),
                    Mark_from("minimum_service" \notin mp) >>
    IN Returned(<< <<"A15", <<"shut down services">> >>,
                   <<"B15", B15_text(marks)>>,
                   <<"C15", desc>> >>, h)

\* ---- GuardItem::Audit
\* /etc/ssh/sshd_config: a line is its blank-separated words
RECURSIVE sshd_config_scan(_, _)
sshd_config_scan(lines, mp) ==
    IF lines = <<>> THEN mp
    ELSE LET line == trim(Head(lines))
             m1 == IF starts_with(line, "Port") /\ Len(line) >= 2 /\ line[2] # "22"
                   THEN mp \cup {"not_default_ssh_port"} ELSE mp
             m2 == IF starts_with(line, "SyslogFacility AUTH")
                   THEN m1 \cup {"ssh_syslog_enabled"} ELSE m1
         IN sshd_config_scan(Tail(lines), m2)

\* /etc/logrotate.conf: a line is [kw, digits] for the text  kw digits;
\* only the first line starting with "rotate " is looked at
logrotate_scan(lines) ==
    LET rot == SelectSeq(lines, LAMBDA l : l.kw = "rotate")
        cycle == IF rot # <<>> THEN parse_i32(FALSE, rot[1].digits) ELSE None
    IN IF cycle.some /\ cycle.v >= 54 THEN {"logrotate_cycle_passed"} ELSE {}

service_list == <<"sshd", "rsyslog", "auditd">>

service_status_cmd(service) ==
    CASE service = "sshd" -> "service sshd status"
      [] service = "rsyslog" -> "service rsyslog status"
      [] service = "auditd" -> "service auditd status"

services_running(s) ==
    {service_list[i] : i \in {j \in 1..Len(service_list) :
        LET r == runcmd(s, service_status_cmd(service_list[j]), 463)
        IN r.ok /\ contains(r.r, "running")}}

audit_file_list ==
    <<"/etc/group", "/etc/passwd", "/etc/ssh/sshd_config", "/etc/shadow",
      "/etc/sudoers", "/var/log/lastlog", "/etc/profile", "/etc/sysctl.conf">>

\* A line of `auditctl -l`: [w, path, p, flags, key]: w: it starts with "-w";
\* path: the word after "-w"; p: "-p <flags>" follows, flags being the
\* permission letters; key: something (such as "-k <name>") follows that.
audit_re_matches(line) == line.w /\ line.path # "" /\ line.p /\ ~line.key

audit_line_panics(line) == line.w /\ ~audit_re_matches(line)

audit_line_covers(line) ==
    /\ line.w
    /\ audit_re_matches(line)
    /\ contains(audit_file_list, line.path)
    /\ (contains(line.flags, "w") \/ contains(line.flags, "a"))

auditctl_scan(lines) ==
    LET watch_rule_indicator ==
            {lines[i].path : i \in {j \in 1..Len(lines) : audit_line_covers(lines[j])}}
        audit_file_passed ==
            \A i \in 1..Len(audit_file_list) : audit_file_list[i] \in watch_rule_indicator
    IN IF audit_file_passed THEN {"audit_file_passed"} ELSE {}

B19_text(m) ==
    <<"[", as_str(m[1]), "]system log process (syslog) is on\n[",
      as_str(m[2]), "]audit process (auditd) is on\n[",
      as_str(m[3]), "]SSH log auditing is on\n[",
      as_str(m[4]), "]audit content is kept for 6 months\n",
      "[  ]audit content is sent to another log audit device\n[",
      as_str(m[5]), "]audit covers at least: user changes, audit start and stop, ...\n[",
      as_str(m[6]), "]SSH is enabled\n[",
      as_str(m[7]), "]the default SSH port is changed\n">>

check_Audit(s, h) ==
    LET r1 == runcmd(s, "cat /etc/ssh/sshd_config", 425)
        r2 == runcmd(s, "cat /etc/logrotate.conf", 443)
        r3 == runcmd(s, "auditctl -l", 477)
        mp == (IF r1.ok THEN sshd_config_scan(r1.r, {}) ELSE {})
              \cup (IF r2.ok THEN logrotate_scan(r2.r) ELSE {})
              \cup services_running(s)
              \cup (IF r3.ok THEN auditctl_scan(r3.r) ELSE {})
        marks == << Mark_from("rsyslog" \in mp), Mark_from("auditd" \in mp),
                    Mark_from("ssh_syslog_enabled" \in mp),
                    Mark_from("logrotate_cycle_passed" \in mp),
                    Mark_from("audit_file_passed" \in mp),
                    Mark_from("sshd" \in mp),
                    Mark_from("not_default_ssh_port" \in mp) >>
    IN IF r3.ok /\ \E i \in 1..Len(r3.r) : audit_line_panics(r3.r[i])
       THEN Panicked(h)
       ELSE Returned(<< <<"A19", <<"remote access / system audit / audit content">> >>,
                        <<"B19", B19_text(marks)>> >>, h)

\* ---- GuardItem::IPTables
\* /etc/sysconfig/iptables: a line is its words, the rule's chain first
IsCidr(tok) == tok \in {"10.0.0.0/24", "192.168.1.0/24", "172.16.0.1/"}

iptables_caps(line) == SelectSeq(line, IsCidr)

iptables_line_panics(line) == starts_with(line, "-A whitelist") /\ iptables_caps(line) = <<>>

check_IPTables(s, h) ==
    LET r == runcmd(s, "cat /etc/sysconfig/iptables", 528)
        wl == IF r.ok THEN SelectSeq(r.r, LAMBDA l : starts_with(l, "-A whitelist")) ELSE <<>>
        iplist == [i \in 1..Len(wl) |-> <<iptables_caps(wl[i])[1]>>]
    IN IF \E i \in 1..Len(wl) : iptables_line_panics(wl[i])
       THEN Panicked(h)
       ELSE Returned(<< <<"A21", <<"terminal access method and network address range">> >>,
                        <<"C21", join(iplist, ";")>> >>, h)

\* ---- GuardItem::CommandHistory
parse_size(name, line) ==
    IF line.name = name /\ line.digits # <<>> THEN parse_usize(line.digits) ELSE None

\* hist_scan without the test for comment lines
RECURSIVE hist_scan_with_comments(_, _)
hist_scan_with_comments(lines, mp) ==
    IF lines = <<>> THEN mp
    ELSE LET line == Head(lines)
             a == parse_size("HISTSIZE", line)
             b == parse_size("HISTFILESIZE", line)
             m1 == IF a.some THEN [mp EXCEPT !.HISTSIZE = Some(a.v)] ELSE mp
             m2 == IF b.some THEN [m1 EXCEPT !.HISTFILESIZE = Some(b.v)] ELSE m1
         IN hist_scan_with_comments(Tail(lines), m2)

RECURSIVE hist_scan(_, _)
hist_scan(lines, mp) ==
    IF lines = <<>> THEN mp
    ELSE LET line == Head(lines)
             a == parse_size("HISTSIZE", line)
             b == parse_size("HISTFILESIZE", line)
             m1 == IF ~line.hash /\ a.some THEN [mp EXCEPT !.HISTSIZE = Some(a.v)] ELSE mp
             m2 == IF ~line.hash /\ b.some THEN [m1 EXCEPT !.HISTFILESIZE = Some(b.v)] ELSE m1
         IN hist_scan(Tail(lines), m2)

B25_text(mark) == <<"[", as_str(mark), "]system history commands are deleted">>

check_CommandHistory(s, h) ==
    LET r == runcmd(s, "cat /etc/profile", 549)
        mp == IF r.ok THEN hist_scan(r.r, [HISTSIZE |-> None, HISTFILESIZE |-> None])
              ELSE [HISTSIZE |-> None, HISTFILESIZE |-> None]
        histsz == IF mp.HISTSIZE.some THEN mp.HISTSIZE.v ELSE 50000
        histfsz == IF mp.HISTFILESIZE.some THEN mp.HISTFILESIZE.v ELSE 50000
    IN Returned(<< <<"A25", <<"history command">> >>,
                   <<"B25", B25_text(Mark_from(histsz <= 5 /\ histfsz <= 5))>> >>, h)

\* ---- GuardItem::check
check(item, s, h) ==
    CASE item = "OS" -> check_OS(s, h)
      [] item = "IP" -> check_IP(s, h)
      [] item = "UserMgmt" -> check_UserMgmt(s, h)
      [] item = "PasswdComplexity" -> check_PasswdComplexity(s, h)
      [] item = "OperationTimeout" -> check_OperationTimeout(s, h)
      [] item = "Port" -> check_Port(s, h)
      [] item = "Service" -> check_Service(s, h)
      [] item = "Audit" -> check_Audit(s, h)
      [] item = "IPTables" -> check_IPTables(s, h)
      [] item = "CommandHistory" -> check_CommandHistory(s, h)

\* ------------------------------------------------------ hosts to scan
PasswdLines == {
    <<"root", ":x:0:0:root:/root:", "/bin/bash">>,
    <<"root", ":x:0:0:root:/root:", "/sbin/nologin">>,
    <<"rootadm", ":x:0:0::/root:", "/bin/bash">>,
    <<"alice", ":x:500:500::/home/alice:", "/bin/bash">>,
    <<"mysql", ":x:27:27::/var/lib/mysql:", "/bin/false">>,
    <<"#", "root", ":x:0:0:root:/root:", "/bin/bash">> }

Digits(n) ==
    CASE n = 0 -> <<0>> [] n = 1 -> <<1>> [] n = 2 -> <<2>> [] n = 3 -> <<3>>
      [] n = 4 -> <<4>> [] n = 5 -> <<5>> [] n = 6 -> <<6>> [] n = 7 -> <<7>>
      [] n = 8 -> <<8>> [] n = 9 -> <<9>>
      [] n = 54 -> <<5, 4>> [] n = 53 -> <<5, 3>>
      [] n = 90 -> <<9, 0>> [] n = 180 -> <<1, 8, 0>> [] n = 181 -> <<1, 8, 1>>
      [] n = 300 -> <<3, 0, 0>> [] n = 600 -> <<6, 0, 0>> [] n = 601 -> <<6, 0, 1>>
      [] n = 900 -> <<9, 0, 0>> [] n = 1000 -> <<1, 0, 0, 0>>
      [] n = 99999 -> <<9, 9, 9, 9, 9>>

\* digits of a number too large for i32 and u32, and of one too large for usize
Huge == <<9, 9, 9, 9, 9, 9, 9, 9, 9, 9, 9>>
HugeUsize == <<9, 9, 9, 9, 9, 9, 9, 9, 9, 9, 9, 9, 9, 9, 9, 9, 9, 9, 9, 9, 9>>

LoginDefsLines == {
    [key |-> "PASS_MIN_LEN", sep |-> "\t", val |-> Digits(8)],
    [key |-> "PASS_MIN_LEN", sep |-> "\t", val |-> Digits(7)],
    [key |-> "PASS_MIN_LEN", sep |-> " ", val |-> Digits(8)],
    [key |-> "PASS_MIN_LEN", sep |-> "\t", val |-> Huge],
    [key |-> "PASS_MAX_DAYS", sep |-> "\t", val |-> Digits(180)],
    [key |-> "PASS_MAX_DAYS", sep |-> "\t", val |-> Digits(181)],
    [key |-> "PASS_MAX_DAYS", sep |-> "\t", val |-> <<>>],
    [key |-> "PASS_WARN_AGE", sep |-> "\t", val |-> Digits(7)] }

Credit(name, n) == [name |-> name, spaced |-> FALSE, neg |-> TRUE, digits |-> Digits(n)]

Cracklib(args) == [head |-> "password requisite pam_cracklib.so", args |-> args]

SystemAuthLines == {
    Cracklib(<<Credit("ucredit", 2), Credit("lcredit", 1), Credit("dcredit", 4), Credit("ocredit", 1)>>),
    Cracklib(<<Credit("ucredit", 1), Credit("lcredit", 1), Credit("dcredit", 4), Credit("ocredit", 1)>>),
    Cracklib(<<Credit("ucredit", 2), Credit("lcredit", 0), Credit("dcredit", 4), Credit("ocredit", 1)>>),
    Cracklib(<<Credit("ucredit", 2), Credit("lcredit", 1), Credit("dcredit", 3), Credit("ocredit", 1)>>),
    Cracklib(<<Credit("ucredit", 2), Credit("lcredit", 1), Credit("dcredit", 4)>>),
    Cracklib(<<Credit("dcredit", 5), Credit("ocredit", 2), Credit("ucredit", 3), Credit("lcredit", 2)>>),
    Cracklib(<<Credit("ucredit", 2), Credit("lcredit", 1), Credit("dcredit", 4), Credit("ocredit", 1),
               Credit("ucredit", 1)>>),
    Cracklib(<<[name |-> "ucredit", spaced |-> TRUE, neg |-> TRUE, digits |-> Digits(2)],
               Credit("lcredit", 1), Credit("dcredit", 4), Credit("ocredit", 1)>>),
    Cracklib(<<[name |-> "ucredit", spaced |-> FALSE, neg |-> FALSE, digits |-> Digits(2)],
               Credit("lcredit", 1), Credit("dcredit", 4), Credit("ocredit", 1)>>),
    Cracklib(<<[name |-> "minlen", spaced |-> FALSE, neg |-> FALSE, digits |-> Digits(8)]>>),
    [head |-> "password sufficient pam_unix.so",
     args |-> <<Credit("ucredit", 2), Credit("lcredit", 1), Credit("dcredit", 4), Credit("ocredit", 1)>>] }

ProfileLine(hash, name, digits) == [hash |-> hash, name |-> name, digits |-> digits]

ProfileLines == {
    ProfileLine(FALSE, "TMOUT", Digits(300)),
    ProfileLine(FALSE, "TMOUT", Digits(600)),
    ProfileLine(FALSE, "TMOUT", Digits(601)),
    ProfileLine(FALSE, "TMOUT", Digits(900)),
    ProfileLine(FALSE, "TMOUT", Huge),
    ProfileLine(FALSE, "TMOUT", <<>>),
    ProfileLine(TRUE, "TMOUT", Digits(300)),
    ProfileLine(FALSE, "HISTSIZE", Digits(5)),
    ProfileLine(FALSE, "HISTSIZE", Digits(6)),
    ProfileLine(FALSE, "HISTSIZE", HugeUsize),
    ProfileLine(TRUE, "HISTSIZE", Digits(5)),
    ProfileLine(FALSE, "HISTFILESIZE", Digits(5)),
    ProfileLine(FALSE, "HISTFILESIZE", Digits(1000)),
    ProfileLine(FALSE, "PATH", <<>>) }

\* /etc/profile texts of three lines that set the history sizes
HistLines == {
    ProfileLine(FALSE, "HISTSIZE", Digits(5)),
    ProfileLine(FALSE, "HISTSIZE", Digits(6)),
    ProfileLine(FALSE, "HISTSIZE", HugeUsize),
    ProfileLine(TRUE, "HISTSIZE", Digits(6)),
    ProfileLine(FALSE, "HISTFILESIZE", Digits(5)),
    ProfileLine(FALSE, "HISTFILESIZE", Digits(1000)) }

HistTexts == [1..3 -> HistLines]

\* runlevel status patterns, runlevels 0..6
AllOn == <<"on", "on", "on", "on", "on", "on", "on">>
AllOff == <<"off", "off", "off", "off", "off", "off", "off">>
On2to5 == <<"off", "off", "on", "on", "on", "on", "off">>
On3to6 == <<"off", "off", "off", "on", "on", "on", "on">>
Off3 == <<"on", "on", "on", "off", "on", "on", "on">>
NoColon == <<"", "", "", "", "", "", "">>
SixItems == <<"on", "on", "on", "on", "on", "on">>

ChkconfigLines ==
    {[name |-> "sendmail", levels |-> l] :
        l \in {AllOn, AllOff, On2to5, On3to6, Off3, NoColon, SixItems}}
    \cup {[name |-> "postfix", levels |-> l] : l \in {On2to5, AllOff}}
    \cup {[name |-> "telnet", levels |-> l] : l \in {On2to5, On3to6}}
    \cup {[name |-> "bluetooth", levels |-> l] : l \in {On2to5, On3to6, AllOff}}
    \cup {[name |-> "cups", levels |-> l] : l \in {AllOn}}

SshdConfigLines == {
    <<"Port", "22">>, <<"Port", "2222">>, <<"#Port", "22">>, <<"Port">>,
    <<"SyslogFacility AUTH">>, <<"SyslogFacility AUTHPRIV">> }

LogrotateLines == {
    [kw |-> "rotate", digits |-> Digits(54)],
    [kw |-> "rotate", digits |-> Digits(53)],
    [kw |-> "rotate", digits |-> Huge],
    [kw |-> "weekly", digits |-> <<>>] }

ServiceOuts == { <<"(pid 1203) ", "running", "...\n">>, <<"stopped", "\n">> }

Watch(path, flags) == [w |-> TRUE, path |-> path, p |-> TRUE, flags |-> flags, key |-> FALSE]

\* lines of `auditctl -l`: well-formed watches, a watch followed by "-k <name>",
\* a watch without "-p", a syscall rule and the "No rules" line
AuditctlLines == {
    Watch("/etc/passwd", <<"w", "a">>),
    Watch("/etc/passwd", <<"r">>),
    Watch("/tmp", <<"r", "w", "x", "a">>),
    [w |-> TRUE, path |-> "/etc/shadow", p |-> TRUE, flags |-> <<"w", "a">>, key |-> TRUE],
    [w |-> TRUE, path |-> "/etc/group", p |-> FALSE, flags |-> <<>>, key |-> FALSE],
    [w |-> FALSE, path |-> "", p |-> FALSE, flags |-> <<>>, key |-> FALSE] }

FullWatch == [i \in 1..Len(audit_file_list) |-> Watch(audit_file_list[i], <<"w", "a">>)]

Without(seq, i) == SubSeq(seq, 1, i - 1) \o SubSeq(seq, i + 1, Len(seq))

AuditctlTexts ==
    Texts(AuditctlLines)
    \cup {FullWatch}
    \cup {Without(FullWatch, i) : i \in 1..Len(FullWatch)}
    \cup {[FullWatch EXCEPT ![i].flags = f] : i \in 1..Len(FullWatch),
                                              f \in {<<"r">>, <<"r", "x">>, <<"a">>, <<"w">>}}
    \cup {FullWatch \o <<l>> : l \in AuditctlLines}
    \cup {<<l>> \o FullWatch : l \in AuditctlLines}

IptablesLines == {
    <<"-A whitelist", "-s", "10.0.0.0/24", "-j ACCEPT">>,
    <<"-A whitelist", "-s", "192.168.1.0/24", "-j ACCEPT">>,
    <<"-A whitelist", "-s", "172.16.0.1/", "-j ACCEPT">>,
    <<"-A whitelist", "-s", "10.0.0.5", "-j ACCEPT">>,
    <<"-A INPUT", "-s", "10.0.0.0/24", "-j whitelist">>,
    <<":whitelist - [0:0]">> }

IssueTexts == {
    <<>>,
    <<"CentOS release 6.5 (Final)", "\n", "Kernel on an x86_64", "\n", "\n">>,
    <<"\n", "Red Hat", "\r", "\n", "Kernel">> }

UmaskOuts == { <<"0022", "\n">>, <<"0077", "\n">>, <<>> }

Addr(v4, ip) == [v4 |-> v4, ip |-> ip]

IfaceLists == {
    <<>>,
    << <<Addr(TRUE, "127.0.0.1"), Addr(FALSE, "::1")>> >>,
    << <<Addr(TRUE, "127.0.0.1")>>, <<Addr(TRUE, "10.0.0.5"), Addr(FALSE, "fe80::1")>> >>,
    << <<Addr(TRUE, "10.0.0.5")>>, <<Addr(TRUE, "127.0.0.1")>> >>,
    << <<Addr(TRUE, "10.0.0.5"), Addr(TRUE, "192.168.1.7")>>, <<>> >> }

Ports == {tcp_port_list[i] : i \in 1..Len(tcp_port_list)}

\* a host on which every command succeeds and nothing uses the probed ports
BaseHost == [
    out |-> [c \in Commands |->
        CASE c = "cat /etc/issue" ->
                <<"CentOS release 6.5 (Final)", "\n", "Kernel on an x86_64", "\n", "\n">>
          [] c = "bash -i -c 'umask'" -> <<"0022", "\n">>
          [] c = "cat /etc/passwd" ->
                << <<"root", ":x:0:0:root:/root:", "/bin/bash">>,
                   <<"mysql", ":x:27:27::/var/lib/mysql:", "/bin/false">> >>
          [] c = "cat /etc/login.defs" ->
                << [key |-> "PASS_MAX_DAYS", sep |-> "\t", val |-> Digits(99999)],
                   [key |-> "PASS_MIN_LEN", sep |-> "\t", val |-> Digits(5)] >>
          [] c = "cat /etc/pam.d/system-auth" ->
                << [head |-> "password sufficient pam_unix.so", args |-> <<>>] >>
          [] c = "cat /etc/profile" ->
                << ProfileLine(FALSE, "HISTSIZE", Digits(1000)) >>
          [] c = "chkconfig --list" ->
                << [name |-> "sendmail",
                    levels |-> <<"off", "off", "on", "on", "on", "on", "off">>] >>
          [] c = "cat /etc/ssh/sshd_config" -> << <<"#Port", "22">>, <<"SyslogFacility AUTHPRIV">> >>
          [] c = "cat /etc/logrotate.conf" ->
                << [kw |-> "weekly", digits |-> <<>>], [kw |-> "rotate", digits |-> Digits(4)] >>
          [] c = "service sshd status" -> <<"(pid 1203) ", "running", "...\n">>
          [] c = "service rsyslog status" -> <<"(pid 1203) ", "running", "...\n">>
          [] c = "service auditd status" -> <<"stopped", "\n">>
          [] c = "auditctl -l" -> << [w |-> FALSE, path |-> "", p |-> FALSE, flags |-> <<>>, key |-> FALSE] >>
          [] c = "cat /etc/sysconfig/iptables" ->
                << <<":whitelist - [0:0]">>, <<"-A whitelist", "-s", "10.0.0.0/24", "-j ACCEPT">> >>],
    ifaces |-> << <<Addr(TRUE, "127.0.0.1")>>, <<Addr(TRUE, "10.0.0.5"), Addr(FALSE, "fe80::1")>> >>,
    occupied |-> {},
    fail |-> {} ]

SitesOf(cmds) == {site \in CallSites : site[1] \in cmds}

\* BaseHost with the outputs outs (a function from some commands to their
\* output) and the failing calls f
HostWith(outs, f) ==
    [BaseHost EXCEPT !.out = [c \in Commands |-> IF c \in DOMAIN outs THEN outs[c] ELSE @[c]],
                     !.fail = f]

LoginDefsSamples == {
    BaseHost.out["cat /etc/login.defs"],
    << [key |-> "PASS_MIN_LEN", sep |-> "\t", val |-> Digits(8)],
       [key |-> "PASS_MAX_DAYS", sep |-> "\t", val |-> Digits(90)] >> }

SystemAuthSamples == {
    BaseHost.out["cat /etc/pam.d/system-auth"],
    << Cracklib(<<Credit("ucredit", 2), Credit("lcredit", 1), Credit("dcredit", 4),
                  Credit("ocredit", 1)>>) >> }

\* the hosts a direct check() call of each GuardItem is tried on: the outputs
\* of the commands it runs range over the texts above, every subset of its
\* runcmd calls fails
HostsOf(item) ==
    CASE item = "OS" ->
            {HostWith("cat /etc/issue" :> t, f) :
                t \in IssueTexts, f \in SUBSET SitesOf({"cat /etc/issue"})}
      [] item = "IP" -> {[BaseHost EXCEPT !.ifaces = i] : i \in IfaceLists}
      [] item = "UserMgmt" ->
            {HostWith("bash -i -c 'umask'" :> u @@ "cat /etc/passwd" :> t, f) :
                u \in UmaskOuts, t \in Texts(PasswdLines),
                f \in SUBSET SitesOf({"bash -i -c 'umask'", "cat /etc/passwd"})}
      [] item = "PasswdComplexity" ->
            {HostWith("cat /etc/login.defs" :> d @@ "cat /etc/pam.d/system-auth" :> a, f) :
                d \in Texts(LoginDefsLines), a \in SystemAuthSamples,
                f \in SUBSET SitesOf({"cat /etc/login.defs", "cat /etc/pam.d/system-auth"})}
            \cup
            {HostWith("cat /etc/login.defs" :> d @@ "cat /etc/pam.d/system-auth" :> a, f) :
                d \in LoginDefsSamples, a \in Texts(SystemAuthLines),
                f \in SUBSET SitesOf({"cat /etc/login.defs", "cat /etc/pam.d/system-auth"})}
      [] item = "OperationTimeout" ->
            {HostWith("cat /etc/profile" :> t, f) :
                t \in Texts(ProfileLines), f \in SUBSET {<<"cat /etc/profile", 250>>}}
      [] item = "Port" -> {[BaseHost EXCEPT !.occupied = o] : o \in SUBSET Ports}
      [] item = "Service" ->
            {HostWith("chkconfig --list" :> t, f) :
                t \in Texts(ChkconfigLines), f \in SUBSET SitesOf({"chkconfig --list"})}
      [] item = "Audit" ->
            {HostWith("cat /etc/ssh/sshd_config" :> c, f) :
                c \in Texts(SshdConfigLines),
                f \in SUBSET SitesOf({"cat /etc/ssh/sshd_config", "cat /etc/logrotate.conf"})}
            \cup
            {HostWith("cat /etc/logrotate.conf" :> l, f) :
                l \in Texts(LogrotateLines),
                f \in SUBSET SitesOf({"cat /etc/ssh/sshd_config", "cat /etc/logrotate.conf"})}
            \cup
            {HostWith("service sshd status" :> a @@ "service rsyslog status" :> b
                      @@ "service auditd status" :> c, f) :
                a \in ServiceOuts, b \in ServiceOuts, c \in ServiceOuts,
                f \in SUBSET SitesOf({"service sshd status", "service rsyslog status",
                                      "service auditd status"})}
            \cup
            {HostWith("auditctl -l" :> t, f) :
                t \in AuditctlTexts, f \in SUBSET SitesOf({"auditctl -l"})}
            \cup
            {HostWith("auditctl -l" :> FullWatch, f) :
                f \in SUBSET SitesOf({"cat /etc/ssh/sshd_config", "cat /etc/logrotate.conf",
                                      "service sshd status", "service rsyslog status",
                                      "service auditd status", "auditctl -l"})}
      [] item = "IPTables" ->
            {HostWith("cat /etc/sysconfig/iptables" :> t, f) :
                t \in Texts(IptablesLines), f \in SUBSET SitesOf({"cat /etc/sysconfig/iptables"})}
      [] item = "CommandHistory" ->
            {HostWith("cat /etc/profile" :> t, f) :
                t \in Texts(ProfileLines), f \in SUBSET {<<"cat /etc/profile", 549>>}}
            \cup {HostWith("cat /etc/profile" :> t, {}) : t \in HistTexts}

\* ------------------------------------------------ a direct check() call
NoCall == [n |-> 0, panic |-> FALSE, cell |-> GuardCell_new, calls |-> <<>>, probes |-> <<>>]

NoGui == [pc |-> "off", scanbtn |-> FALSE, panel |-> FALSE]
NoPanel == [built |-> FALSE, cells |-> <<>>, rows |-> <<>>, order |-> <<>>]
NoExport == [n |-> 0, cells |-> <<>>, sheet |-> <<>>, order |-> <<>>]

InitCheck ==
    /\ self \in GuardItems
    /\ sys \in HostsOf(self)
    /\ held = {}
    /\ last = NoCall
    /\ gc = GuardCell_new /\ adds = <<>> /\ got = [n |-> 0, pos |-> "", val |-> <<>>, at |-> 0]
    /\ gui = NoGui /\ panel = NoPanel /\ export = NoExport /\ changes = 0

\* self.check(), called from a program that goes on after it
CallCheck ==
    /\ ~last.panic
    /\ LET r == check(self, sys, held)
       IN /\ last' = [n |-> IF last.n < 2 THEN last.n + 1 ELSE 2, panic |-> r.panic,
                      cell |-> r.cell, calls |-> r.calls, probes |-> r.probes]
          /\ held' = r.held
    /\ UNCHANGED <<sys, self, gc, adds, got, gui, panel, export, changes>>

NextCheck == CallCheck

SpecCheck == InitCheck /\ [][NextCheck]_vars

\* ------------------------------------------------------------ main.rs
\* the order in which host_security_panel calls check()
panel_items ==
    <<"OS", "IP", "UserMgmt", "PasswdComplexity", "OperationTimeout", "Port",
      "Service", "Audit", "IPTables", "CommandHistory">>

\* the keys host_security_panel looks up in the cell of each item
panel_keys(item) ==
    CASE item = "OS" -> <<"A4", "B4">>
      [] item = "IP" -> <<"A5", "B5">>
      [] item = "UserMgmt" -> <<"A8", "B8", "B9", "C8", "C9">>
      [] item = "PasswdComplexity" -> <<"A10", "B10", "C10">>
      [] item = "OperationTimeout" -> <<"A11", "B11", "C11">>
      [] item = "Port" -> <<"A14", "B14", "C14">>
      [] item = "Service" -> <<"A15", "B15", "C15">>
      [] item = "Audit" -> <<"A19", "B19", "C19">>
      [] item = "IPTables" -> <<"A21", "B21", "C21">>
      [] item = "CommandHistory" -> <<"A25", "B25", "C25">>

\* the vector `cells` of saveas
saveas_cells ==
    <<"OS", "IP", "UserMgmt", "PasswdComplexity", "OperationTimeout", "Port",
      "Audit", "IPTables", "Service", "CommandHistory">>

\* check() on each item of `items` in turn, on host s, starting with the
\* listeners h held: the cells returned, in `order` the items evaluated; a
\* panic ends the run
NoRun(h) == [panic |-> FALSE, cells |-> <<>>, held |-> h, order |-> <<>>]

\* one iteration: the cell `r` returned for `item` is kept, a panic ends the run
run_step(item, acc, r) ==
    IF r.panic
    THEN [acc EXCEPT !.panic = TRUE, !.order = Append(acc.order, item)]
    ELSE [panic |-> FALSE,
          cells |-> (item :> r.cell) @@ acc.cells,
          held |-> r.held,
          order |-> Append(acc.order, item)]

RECURSIVE run_checks(_, _, _)
run_checks(items, s, acc) ==
    IF items = <<>> \/ acc.panic THEN acc
    ELSE run_checks(Tail(items), s,
            run_step(Head(items), acc, check(Head(items), s, acc.held)))

\* the texts the panel shows: cell.get(key) for every key it looks up
panel_rows(cells) ==
    LET keys == UNION {{panel_keys(i)[j] : j \in 1..Len(panel_keys(i))} : i \in DOMAIN cells}
        item_of(k) == CHOOSE i \in DOMAIN cells : contains(panel_keys(i), k)
    IN [k \in keys |-> get(cells[item_of(k)], k)]

\* sheet.get_cell_mut(k).set_value(v) for every (k, v) of every cell, the
\* cells taken in the order of `items`
RECURSIVE sheet_of(_, _, _)
sheet_of(items, cells, sheet) ==
    IF items = <<>> THEN sheet
    ELSE LET c == cells[Head(items)]
         IN sheet_of(Tail(items), cells,
                [k \in DOMAIN sheet \cup DOMAIN c |-> IF k \in DOMAIN c THEN c[k] ELSE sheet[k]])

Crashed == [pc |-> "crashed", scanbtn |-> FALSE, panel |-> FALSE]

\* host_security_panel: the outcome r of the ten checks becomes the panel
panel_built(r) ==
    /\ held' = r.held
    /\ IF r.panic
       THEN /\ gui' = Crashed
            /\ panel' = [built |-> FALSE, cells |-> r.cells, rows |-> <<>>,
                         order |-> r.order]
       ELSE /\ gui' = [pc |-> "run", scanbtn |-> TRUE, panel |-> FALSE]
            /\ panel' = [built |-> TRUE, cells |-> r.cells,
                         rows |-> panel_rows(r.cells), order |-> r.order]

\* main(): the Scan button is created, the panel is built (which runs the
\* ten checks) and hidden, the window is shown
Start ==
    /\ gui.pc = "boot"
    /\ panel_built(run_checks(panel_items, sys, NoRun(held)))
    /\ UNCHANGED <<sys, self, last, gc, adds, got, export, changes>>

\* a Scan callback that builds the panel anew before showing it
panel_rebuilt(r) ==
    /\ held' = r.held
    /\ IF r.panic
       THEN gui' = Crashed /\ panel' = panel
       ELSE /\ gui' = [gui EXCEPT !.panel = TRUE, !.scanbtn = FALSE]
            /\ panel' = [built |-> TRUE, cells |-> r.cells,
                         rows |-> panel_rows(r.cells), order |-> r.order]

ScanClick_rescans ==
    /\ gui.pc = "run" /\ gui.scanbtn
    /\ panel_rebuilt(run_checks(panel_items, sys, NoRun(held)))
    /\ UNCHANGED <<sys, self, last, gc, adds, got, export, changes>>

\* the callback of the Scan button
ScanClick ==
    /\ gui.pc = "run" /\ gui.scanbtn
    /\ gui' = [gui EXCEPT !.panel = TRUE, !.scanbtn = FALSE]
    /\ UNCHANGED <<sys, held, self, last, gc, adds, got, panel, export, changes>>

\* a Back callback that shows the Scan button and leaves the panel shown
BackClick_keeps_panel ==
    /\ gui.pc = "run" /\ gui.panel
    /\ gui' = [gui EXCEPT !.scanbtn = TRUE]
    /\ UNCHANGED <<sys, held, self, last, gc, adds, got, panel, export, changes>>

\* the callback of the Back button, which is part of the panel
BackClick ==
    /\ gui.pc = "run" /\ gui.panel
    /\ gui' = [gui EXCEPT !.panel = FALSE, !.scanbtn = TRUE]
    /\ UNCHANGED <<sys, held, self, last, gc, adds, got, panel, export, changes>>

\* saveas: the outcome r of the ten checks is merged into the sheet.  A
\* panic inside the callback either ends the process or is caught where the
\* toolkit calls the callback, and the event loop goes on: both are outcomes
\* a build can produce.
saved(r) ==
    /\ held' = r.held
    /\ IF r.panic
       THEN /\ gui' \in {Crashed, gui}
            /\ export' = [n |-> export.n, cells |-> r.cells, sheet |-> <<>>,
                          order |-> r.order]
       ELSE /\ gui' = gui
            /\ export' = [n |-> IF export.n < 2 THEN export.n + 1 ELSE 2,
                          cells |-> r.cells,
                          sheet |-> sheet_of(saveas_cells, r.cells, <<>>),
                          order |-> r.order]

\* the callback of the Export button, which is part of the panel: saveas
ExportClick ==
    /\ gui.pc = "run" /\ gui.panel
    /\ saved(run_checks(saveas_cells, sys, NoRun(held)))
    /\ UNCHANGED <<sys, self, last, gc, adds, got, panel, changes>>

\* ----------------------------------------------- one scan after another
\* the runcmd calls each GuardItem makes
sites_of_item(item) ==
    CASE item = "OS" -> SitesOf({"cat /etc/issue"})
      [] item = "IP" -> {}
      [] item = "UserMgmt" -> SitesOf({"bash -i -c 'umask'", "cat /etc/passwd"})
      [] item = "PasswdComplexity" ->
            SitesOf({"cat /etc/login.defs", "cat /etc/pam.d/system-auth"})
      [] item = "OperationTimeout" -> {<<"cat /etc/profile", 250>>}
      [] item = "Port" -> {}
      [] item = "Service" -> SitesOf({"chkconfig --list"})
      [] item = "Audit" ->
            SitesOf({"cat /etc/ssh/sshd_config", "cat /etc/logrotate.conf",
                     "service sshd status", "service rsyslog status",
                     "service auditd status", "auditctl -l"})
      [] item = "IPTables" -> SitesOf({"cat /etc/sysconfig/iptables"})
      [] item = "CommandHistory" -> {<<"cat /etc/profile", 549>>}

\* The hosts a whole scan is tried on.  Failing calls: for every set of
\* GuardItems, all the calls of those items fail; every one or two calls fail
\* (HostsOf has every set of failing calls of each single item).  Besides:
\* every set of ports in use, every auditctl and iptables text.
ScanHosts ==
    {HostWith(<<>>, UNION {sites_of_item(i) : i \in items}) : items \in SUBSET GuardItems}
    \cup {HostWith(<<>>, {a, b}) : a \in CallSites, b \in CallSites}
    \cup {[BaseHost EXCEPT !.occupied = o] : o \in SUBSET Ports}
    \cup {HostWith("auditctl -l" :> t, {}) : t \in AuditctlTexts}
    \cup {HostWith("cat /etc/sysconfig/iptables" :> t, {}) : t \in Texts(IptablesLines)}

InitScan ==
    /\ sys \in ScanHosts
    /\ held = {}
    /\ self = "OS" /\ last = NoCall
    /\ gc = GuardCell_new /\ adds = <<>> /\ got = [n |-> 0, pos |-> "", val |-> <<>>, at |-> 0]
    /\ gui = [pc |-> "boot", scanbtn |-> FALSE, panel |-> FALSE]
    /\ panel = NoPanel /\ export = NoExport /\ changes = 0

NextScan == Start \/ ScanClick \/ ExportClick

SpecScan == InitScan /\ [][NextScan]_vars

\* ------------------------------------------------------ the program
MaxChanges == 1

\* hosts the program is started on, and hosts the host may turn into
\* while the program runs
SampleHosts == {
    BaseHost,
    HostWith(<<>>, CallSites),
    [BaseHost EXCEPT !.occupied = {3389}],
    [BaseHost EXCEPT !.occupied = Ports],
    [BaseHost EXCEPT !.ifaces = <<>>],
    HostWith("cat /etc/profile" :> << ProfileLine(FALSE, "TMOUT", Digits(300)),
                                      ProfileLine(FALSE, "HISTSIZE", Digits(5)),
                                      ProfileLine(FALSE, "HISTFILESIZE", Digits(5)) >>, {}),
    HostWith("auditctl -l" :> FullWatch, {}),
    HostWith("auditctl -l" :> << [w |-> TRUE, path |-> "/etc/shadow", p |-> TRUE,
                                  flags |-> <<"w", "a">>, key |-> TRUE] >>, {}),
    HostWith("cat /etc/sysconfig/iptables" :> << <<"-A whitelist", "-s", "10.0.0.5", "-j ACCEPT">> >>, {}),
    HostWith("chkconfig --list" :> << [name |-> "bluetooth",
                                       levels |-> <<"on", "on", "on", "on", "on", "on", "on">>] >>, {}) }

Init ==
    /\ sys \in SampleHosts
    /\ held = {}
    /\ self = "OS" /\ last = NoCall
    /\ gc = GuardCell_new /\ adds = <<>> /\ got = [n |-> 0, pos |-> "", val |-> <<>>, at |-> 0]
    /\ gui = [pc |-> "boot", scanbtn |-> FALSE, panel |-> FALSE]
    /\ panel = NoPanel /\ export = NoExport /\ changes = 0

\* something other than the scanner changes the host
SystemChange ==
    /\ changes < MaxChanges
    /\ gui.pc # "crashed"
    /\ sys' \in SampleHosts \ {sys}
    /\ changes' = changes + 1
    /\ UNCHANGED <<held, self, last, gc, adds, got, gui, panel, export>>

Next == Start \/ ScanClick \/ BackClick \/ ExportClick \/ SystemChange

Spec == Init /\ [][Next]_vars

\* --------------------------------------------- a GuardCell on its own
\* keys and values tried in add calls; keys looked up (those the panel looks
\* up and no check adds among them)
CellKeys == {"A8", "B8", "C8"}
CellValues == {<<>>, <<"x">>}
LookupKeys == CellKeys \cup {"C10", "C11", "C14", "C19", "B21", "C25"}

InitCell ==
    /\ sys \in {BaseHost, HostWith(<<>>, CallSites)}
    /\ held = {}
    /\ self = "OS" /\ last = NoCall
    /\ gc = GuardCell_new /\ adds = <<>> /\ got = [n |-> 0, pos |-> "", val |-> <<>>, at |-> 0]
    /\ gui = NoGui /\ panel = NoPanel /\ export = NoExport /\ changes = 0

\* cell.add(pos, val)
CellAdd ==
    /\ Len(adds) < MaxAdds
    /\ \E pos \in CellKeys, val \in CellValues :
          /\ gc' = add(gc, pos, val)
          /\ adds' = Append(adds, <<pos, val>>)
    /\ UNCHANGED <<sys, held, self, last, got, gui, panel, export, changes>>

\* the cell is the one a check() call returns: check() makes its add calls
\* on a new cell
CellCheck ==
    /\ adds = <<>>
    /\ \E item \in GuardItems :
          LET r == check(item, sys, held)
          IN /\ ~r.panic
             /\ gc' = r.cell
             /\ adds' = r.calls
    /\ UNCHANGED <<sys, held, self, last, got, gui, panel, export, changes>>

\* cell.get(pos)
CellGet ==
    /\ \E pos \in LookupKeys :
          got' = [n |-> 1, pos |-> pos, val |-> get(gc, pos), at |-> Len(adds)]
    /\ UNCHANGED <<sys, held, self, last, gc, adds, gui, panel, export, changes>>

NextCell == CellAdd \/ CellCheck \/ CellGet

SpecCell == InitCell /\ [][NextCell]_vars

\* ===================================================================
\* The claims
\* ===================================================================

\* the marks of a text, in the order in which they occur in it
MarksOf(text) == SelectSeq(text, LAMBDA t : t \in {"v", "x"})

Called(item) == self = item /\ last.n > 0

FailsAt(cmd, line) == <<cmd, line>> \in sys.fail

\* the value of the most recent of the add calls `calls` for key pos, the
\* empty string if there is none
RECURSIVE MostRecent(_, _)
MostRecent(calls, pos) ==
    IF calls = <<>> THEN <<>>
    ELSE IF calls[Len(calls)][1] = pos THEN calls[Len(calls)][2]
    ELSE MostRecent(SubSeq(calls, 1, Len(calls) - 1), pos)

\* C10: after any sequence of GuardCell.add calls, get(k) returns the value
\* of the most recent add for key k and the empty string for a key that was
\* never added (such as the keys C8, C10, C11, C14, C19, B21 and C25 that no
\* check adds and the panel looks up).
C10_GetReturnsMostRecentAdd ==
    got.n > 0 => got.val = MostRecent(SubSeq(adds, 1, got.at), got.pos)

\* a key was added twice with different values and then looked up
C10_Witness ==
    /\ got.n > 0 /\ got.at = Len(adds) /\ Len(adds) >= 2
    /\ \E i, j \in 1..Len(adds) :
          /\ i < j
          /\ adds[i][1] = got.pos /\ adds[j][1] = got.pos
          /\ adds[i][2] # adds[j][2]
          /\ got.val = adds[j][2]
          /\ \A m \in (j + 1)..Len(adds) : adds[m][1] # got.pos

\* the keys each GuardItem's cell is to hold
DeclaredKeys(item) ==
    CASE item = "OS" -> {"A4", "B4"}
      [] item = "IP" -> {"A5", "B5"}
      [] item = "UserMgmt" -> {"A8", "B8", "B9", "C9"}
      [] item = "PasswdComplexity" -> {"A10", "B10"}
      [] item = "OperationTimeout" -> {"A11", "B11"}
      [] item = "Port" -> {"A14", "B14"}
      [] item = "Service" -> {"A15", "B15", "C15"}
      [] item = "Audit" -> {"A19", "B19"}
      [] item = "IPTables" -> {"A21", "C21"}
      [] item = "CommandHistory" -> {"A25", "B25"}

\* C1: the GuardCell a check() call returns holds exactly the keys of its
\* GuardItem, whichever of its runcmd calls fail and whatever the others
\* return.
C1_KeySetFixed ==
    (last.n > 0 /\ ~last.panic) => DOMAIN last.cell = DeclaredKeys(self)

\* UserMgmt returned its four keys with the first read of /etc/passwd failing
\* and the second succeeding
C1_Witness ==
    /\ Called("UserMgmt") /\ ~last.panic
    /\ FailsAt("cat /etc/passwd", 122) /\ ~FailsAt("cat /etc/passwd", 133)
    /\ DOMAIN last.cell = {"A8", "B8", "B9", "C9"}

\* the host without the lines the Audit and IPTables checks cannot parse
SkippingMismatches(s) ==
    [s EXCEPT !.out["auditctl -l"] = SelectSeq(@, LAMBDA l : ~audit_line_panics(l)),
              !.out["cat /etc/sysconfig/iptables"] =
                    SelectSeq(@, LAMBDA l : ~iptables_line_panics(l))]

\* C2: a line of `auditctl -l` that starts with -w and is not of the form
\* -w <path> -p <flags>, and a line of the iptables file that starts with
\* -A whitelist and has no CIDR token, are skipped: the check returns, with
\* the cell it returns when the line is absent.
C2_ParseMismatchSkipped ==
    (Called("Audit") \/ Called("IPTables")) =>
        /\ ~last.panic
        /\ last.cell = check(self, SkippingMismatches(sys), {}).cell

ParseMismatch(s) ==
    \/ /\ <<"auditctl -l", 477>> \notin s.fail
       /\ \E i \in 1..Len(s.out["auditctl -l"]) : audit_line_panics(s.out["auditctl -l"][i])
    \/ /\ <<"cat /etc/sysconfig/iptables", 528>> \notin s.fail
       /\ \E i \in 1..Len(s.out["cat /etc/sysconfig/iptables"]) :
             iptables_line_panics(s.out["cat /etc/sysconfig/iptables"][i])

\* C3: whichever runcmd calls fail, a scan (the panel's and the export's)
\* evaluates all ten checks and each returns a cell with its keys; no scan
\* is aborted by a failing call (an aborted scan met a parse mismatch in a
\* text that was collected).
C3_ScanSurvivesCollectionFailures ==
    /\ panel.built =>
          /\ DOMAIN panel.cells = GuardItems /\ Len(panel.order) = 10
          /\ \A i \in GuardItems : DOMAIN panel.cells[i] = DeclaredKeys(i)
    /\ export.n > 0 =>
          /\ DOMAIN export.cells = GuardItems /\ Len(export.order) = 10
          /\ \A i \in GuardItems : DOMAIN export.cells[i] = DeclaredKeys(i)
    /\ gui.pc # "boot" /\ ~ParseMismatch(sys) => panel.built
    /\ gui.pc = "crashed" => ParseMismatch(sys)

\* an export completed on a host where every runcmd call fails
C3_Witness ==
    /\ export.n > 0 /\ sys.fail = CallSites
    /\ DOMAIN export.cells = GuardItems

\* C4: in the Port check the mark of port p is pass iff binding a listener
\* on 127.0.0.1:p succeeds (nothing uses the port), fail iff it fails.
C4_PortPassIffBindSucceeds ==
    Called("Port") =>
        \A i \in 1..Len(tcp_port_list) :
            (MarksOf(last.cell["B14"])[i] = "v") <=> (tcp_port_list[i] \notin sys.occupied)

\* the /etc/profile lines that assign TMOUT=<digits>, in file order
TmoutLines(text) == SelectSeq(text, LAMBDA l : l.name = "TMOUT" /\ l.digits # <<>>)

\* C5: in the OperationTimeout check the value is that of the last
\* TMOUT=<digits> line in file order, and the mark is pass iff that value
\* parses and is <= 600; fail with no such line or an unreadable file.
C5_LastTmoutWins ==
    Called("OperationTimeout") =>
        LET ls == TmoutLines(sys.out["cat /etc/profile"])
            v == IF ls = <<>> THEN None ELSE parse_i32(FALSE, ls[Len(ls)].digits)
        IN (MarksOf(last.cell["B11"])[1] = "v")
           <=> (~FailsAt("cat /etc/profile", 250) /\ v.some /\ v.v <= 600)

\* the well-formed lines of `chkconfig --list` (a name and seven runlevel
\* items) of the services `names` whose runlevels `levels` are all enabled
EnabledLines(text, names, levels) ==
    SelectSeq(text, LAMBDA l : /\ Len(l.levels) = 7
                               /\ l.name \in names
                               /\ \A r \in levels : l.levels[r + 1] # "off")

\* C6 as stated: a service is enabled iff its runlevels 3, 4, 5 and 6 are
\* enabled, so the E-Mail mark is fail iff some sendmail or postfix line has
\* runlevels 3-6 enabled.
C6_EnabledIffRunlevels3to6 ==
    Called("Service") =>
        ((MarksOf(last.cell["B15"])[1] = "x")
         <=> (/\ ~FailsAt("chkconfig --list", 362)
              /\ EnabledLines(sys.out["chkconfig --list"], {"sendmail", "postfix"},
                              {3, 4, 5, 6}) # <<>>))

\* C6 as amended: a service is enabled iff its runlevels 2, 3, 4 and 5 are
\* enabled (status other than the off keyword), whatever runlevels 0, 1 and
\* 6 are; the E-Mail mark is fail iff some sendmail or postfix line has
\* runlevels 2-5 enabled, pass when there is none.
C6_EnabledIffRunlevels2to5 ==
    Called("Service") =>
        ((MarksOf(last.cell["B15"])[1] = "x")
         <=> (/\ ~FailsAt("chkconfig --list", 362)
              /\ EnabledLines(sys.out["chkconfig --list"], {"sendmail", "postfix"},
                              {2, 3, 4, 5}) # <<>>))

\* a sendmail line with runlevels 2-5 on and runlevel 6 off made the mark fail
C6_Witness ==
    /\ Called("Service")
    /\ sys.out["chkconfig --list"] =
          << [name |-> "sendmail", levels |-> <<"off", "off", "on", "on", "on", "on", "off">>] >>
    /\ MarksOf(last.cell["B15"])[1] = "x"

\* the value of credit `name` in a pam_cracklib line: that of its last
\* argument name=-N, 0 if it has none
CreditOf(line, name) ==
    LET idx == {i \in 1..Len(line.args) :
                    /\ line.args[i].name = name /\ ~line.args[i].spaced
                    /\ line.args[i].neg /\ line.args[i].digits # <<>>}
    IN IF idx = {} THEN 0
       ELSE 0 - NumVal(line.args[CHOOSE i \in idx : \A j \in idx : j <= i].digits)

StrongCombination(text) ==
    LET ls == SelectSeq(text, LAMBDA l : l.head = "password requisite pam_cracklib.so")
    IN /\ ls # <<>>
       /\ CreditOf(ls[1], "ucredit") <= -2 /\ CreditOf(ls[1], "lcredit") <= -1
       /\ CreditOf(ls[1], "dcredit") <= -4 /\ CreditOf(ls[1], "ocredit") <= -1

\* C7: the combination mark of B10 is pass iff the first line of system-auth
\* starting with "password requisite pam_cracklib" has ucredit <= -2,
\* lcredit <= -1, dcredit <= -4 and ocredit <= -1, an absent credit being 0.
C7_CombinationMark ==
    Called("PasswdComplexity") =>
        ((MarksOf(last.cell["B10"])[2] = "v")
         <=> (/\ ~FailsAt("cat /etc/pam.d/system-auth", 194)
              /\ StrongCombination(sys.out["cat /etc/pam.d/system-auth"])))

\* the first pam_cracklib line passes, a later one does not, and the mark is pass
C7_Witness ==
    /\ Called("PasswdComplexity")
    /\ ~FailsAt("cat /etc/pam.d/system-auth", 194)
    /\ sys.out["cat /etc/pam.d/system-auth"] =
          << Cracklib(<<Credit("ucredit", 2), Credit("lcredit", 1), Credit("dcredit", 4),
                        Credit("ocredit", 1)>>),
             Cracklib(<<Credit("ucredit", 1), Credit("lcredit", 1), Credit("dcredit", 4),
                        Credit("ocredit", 1)>>) >>
    /\ MarksOf(last.cell["B10"])[2] = "v"

\* the value login.defs gives `key`: that of the last line  key<tab>N  whose
\* N is a u32, `default` if there is none
LoginDefsValue(text, key, default) ==
    LET idx == {i \in 1..Len(text) :
                    text[i].key = key /\ text[i].sep = "\t" /\ parse_u32(text[i].val).some}
    IN IF idx = {} THEN default
       ELSE NumVal(text[CHOOSE i \in idx : \A j \in idx : j <= i].val)

\* C8: the two sources of the PasswdComplexity check fail independently.
\* With system-auth unreadable the combination mark is fail and the length
\* and rotation marks are those of login.defs (PASS_MIN_LEN >= 8,
\* PASS_MAX_DAYS <= 180); with login.defs unreadable the length and rotation
\* marks are fail (defaults 0 and 99999) and the combination mark is that of
\* system-auth.
C8_SourcesFailIndependently ==
    Called("PasswdComplexity") =>
        LET marks == MarksOf(last.cell["B10"])
            defs == sys.out["cat /etc/login.defs"]
            auth == sys.out["cat /etc/pam.d/system-auth"]
        IN /\ ~last.panic /\ DOMAIN last.cell = {"A10", "B10"}
           /\ FailsAt("cat /etc/pam.d/system-auth", 194) => marks[2] = "x"
           /\ ~FailsAt("cat /etc/pam.d/system-auth", 194) =>
                 (marks[2] = "v" <=> StrongCombination(auth))
           /\ FailsAt("cat /etc/login.defs", 168) => marks[1] = "x" /\ marks[3] = "x"
           /\ ~FailsAt("cat /etc/login.defs", 168) =>
                 /\ marks[1] = "v" <=> LoginDefsValue(defs, "PASS_MIN_LEN", 0) >= 8
                 /\ marks[3] = "v" <=> LoginDefsValue(defs, "PASS_MAX_DAYS", 99999) <= 180

\* system-auth unreadable, login.defs readable with PASS_MIN_LEN 8 and
\* PASS_MAX_DAYS 180: length and rotation pass, combination fails
C8_Witness ==
    /\ Called("PasswdComplexity")
    /\ FailsAt("cat /etc/pam.d/system-auth", 194) /\ ~FailsAt("cat /etc/login.defs", 168)
    /\ MarksOf(last.cell["B10"]) = <<"v", "x", "v">>

\* C9: a second scan of an unchanged host returns, for every check, the cell
\* the first scan returned (same keys, same values), and the first scan
\* leaves no listener behind.
C9_ScanIdempotent ==
    export.n > 0 => (export.cells = panel.cells /\ held = {})

\* the panel's scan and two exports on a host with some of the probed ports in use
C9_Witness ==
    /\ export.n = 2
    /\ sys.occupied # {} /\ sys.occupied # Ports
    /\ export.cells = panel.cells

\* the lines of /etc/passwd that the filter of C9 retains (not ending in
\* /nologin or /false, not starting with #) and that start with root
RetainedRootLines(text) ==
    SelectSeq(text, LAMBDA x : /\ ~ends_with(x, "/nologin")
                               /\ ~ends_with(x, "/false")
                               /\ ~starts_with(x, "#")
                               /\ starts_with(x, "root"))

\* C11: in the UserMgmt check, with /etc/passwd readable, the B9 mark is
\* fail iff some line retained by the filter starts with root; a root line
\* the filter removes does not make the mark fail.
C11_RootMarkIffRetainedRoot ==
    (/\ Called("UserMgmt")
     /\ ~FailsAt("cat /etc/passwd", 122) /\ ~FailsAt("cat /etc/passwd", 133)) =>
        ((MarksOf(last.cell["B9"])[1] = "x")
         <=> (RetainedRootLines(sys.out["cat /etc/passwd"]) # <<>>))

\* the eight sensitive paths of the audit-content mark
SensitivePaths ==
    {"/etc/passwd", "/etc/shadow", "/etc/sudoers", "/etc/group", "/etc/ssh/sshd_config",
     "/var/log/lastlog", "/etc/profile", "/etc/sysctl.conf"}

\* the `auditctl -l` output has a line `-w <path> -p <flags>` whose flags
\* contain w or a
Covered(text, path) ==
    \E i \in 1..Len(text) :
        /\ text[i].w /\ text[i].p /\ ~text[i].key
        /\ text[i].path = path
        /\ \E j \in 1..Len(text[i].flags) : text[i].flags[j] \in {"w", "a"}

AllEightCovered(s) ==
    /\ <<"auditctl -l", 477>> \notin s.fail
    /\ \A p \in SensitivePaths : Covered(s.out["auditctl -l"], p)

\* the audit-content mark of B19 (its fifth mark), "" when the check
\* returned no B19
AuditContentMark ==
    IF "B19" \in DOMAIN last.cell THEN MarksOf(last.cell["B19"])[5] ELSE ""

\* C12: in the Audit check the audit-content mark of B19 is pass exactly
\* when each of the eight sensitive paths has a `-w <path> -p <flags>` line
\* with w or a among the flags, and fail when one of them is uncovered or
\* `auditctl -l` is unavailable.
C12_AuditMarkIffAllEightCovered ==
    Called("Audit") =>
        /\ AllEightCovered(sys) => AuditContentMark = "v"
        /\ ~AllEightCovered(sys) => AuditContentMark = "x"

\* the extra-list services that `chkconfig --list` shows enabled (a
\* well-formed line with runlevels 2-5 on), in extra-list order; none when
\* the command is unavailable
EnabledExtra(s) ==
    IF <<"chkconfig --list", 362>> \in s.fail THEN <<>>
    ELSE SelectSeq(service_name_extra_list,
                   LAMBDA n : EnabledLines(s.out["chkconfig --list"], {n}, {2, 3, 4, 5}) # <<>>)

\* C13: in the Service check the minimum-services mark (the last mark of
\* B15) is fail iff some extra-list service is enabled, and C15 then lists
\* exactly the enabled extra-list names in extra-list order; otherwise (none
\* enabled, or `chkconfig --list` unavailable) the mark is pass and C15 is
\* the empty string.  So the mark is fail iff C15 is non-empty.
C13_MinimumServicesMarkAndList ==
    Called("Service") =>
        LET names == EnabledExtra(sys)
            mark == MarksOf(last.cell["B15"])[10]
        IN /\ (mark = "x") <=> (names # <<>>)
           /\ (mark = "v") <=> (names = <<>>)
           /\ last.cell["C15"] =
                 (IF names = <<>> THEN <<>>
                  ELSE <<"the following services are not closed: ">>
                       \o join([i \in 1..Len(names) |-> <<names[i]>>], ", "))
           /\ (mark = "x") <=> (last.cell["C15"] # <<>>)

\* sendmail and bluetooth, listed in this order, are both enabled: the mark
\* is fail and C15 names bluetooth before sendmail
C13_Witness ==
    /\ Called("Service")
    /\ sys.fail = {}
    /\ sys.out["chkconfig --list"] =
          << [name |-> "sendmail", levels |-> On2to5],
             [name |-> "bluetooth", levels |-> On2to5] >>
    /\ MarksOf(last.cell["B15"])[10] = "x"
    /\ last.cell["C15"] =
          <<"the following services are not closed: ", "bluetooth", ", ", "sendmail">>

\* the non-comment lines of /etc/profile of the form <name>=<digits>, in
\* file order
SizeLines(text, name) ==
    SelectSeq(text, LAMBDA l : ~l.hash /\ l.name = name /\ l.digits # <<>>)

\* the value of <name> as C14 states it: that of the last such line,
\* 50000 when there is none, its number does not parse, or the file is
\* unreadable
SizeOfLastLine(s, name) ==
    LET ls == SizeLines(s.out["cat /etc/profile"], name)
    IN IF <<"cat /etc/profile", 549>> \in s.fail \/ ls = <<>> THEN 50000
       ELSE LET v == parse_usize(ls[Len(ls)].digits)
            IN IF v.some THEN v.v ELSE 50000

\* C14 as stated: the B25 mark is pass iff both HISTSIZE and HISTFILESIZE,
\* each taken from the last non-comment line <name>=<digits> and 50000 when
\* there is no such line, the number does not parse or the file is
\* unreadable, are <= 5.
C14_HistoryMarkLastLine ==
    Called("CommandHistory") =>
        ((MarksOf(last.cell["B25"])[1] = "v")
         <=> (SizeOfLastLine(sys, "HISTSIZE") <= 5 /\ SizeOfLastLine(sys, "HISTFILESIZE") <= 5))

\* the value of <name> taken from the last such line whose number parses,
\* 50000 when there is none or the file is unreadable
SizeOfLastParsedLine(s, name) ==
    LET ls == SelectSeq(SizeLines(s.out["cat /etc/profile"], name),
                        LAMBDA l : parse_usize(l.digits).some)
    IN IF <<"cat /etc/profile", 549>> \in s.fail \/ ls = <<>> THEN 50000
       ELSE parse_usize(ls[Len(ls)].digits).v

\* C14 as amended: the B25 mark is pass iff both HISTSIZE and HISTFILESIZE
\* are <= 5, each taken from the last non-comment line <name>=<digits>
\* whose number parses (a line whose number does not parse is ignored) and
\* 50000 when there is no such line or the file is unreadable; lines
\* starting with # never count.
C14_HistoryMarkLastParsedLine ==
    Called("CommandHistory") =>
        ((MarksOf(last.cell["B25"])[1] = "v")
         <=> (/\ SizeOfLastParsedLine(sys, "HISTSIZE") <= 5
              /\ SizeOfLastParsedLine(sys, "HISTFILESIZE") <= 5))

\* HISTSIZE=6 then HISTSIZE=5 and HISTFILESIZE=5: the last line wins and
\* the mark is pass
C14_Witness ==
    /\ Called("CommandHistory")
    /\ sys.fail = {}
    /\ sys.out["cat /etc/profile"] =
          << ProfileLine(FALSE, "HISTSIZE", Digits(6)),
             ProfileLine(FALSE, "HISTSIZE", Digits(5)),
             ProfileLine(FALSE, "HISTFILESIZE", Digits(5)) >>
    /\ MarksOf(last.cell["B25"])[1] = "v"

\* the catalogue order of the ten checks
CatalogueOrder ==
    <<"OS", "IP", "UserMgmt", "PasswdComplexity", "OperationTimeout", "Port",
      "Service", "Audit", "IPTables", "CommandHistory">>

\* C15: every scan path evaluates the ten checks one at a time in the
\* catalogue order; the order in which the panel's scan and an export's
\* scan evaluate them is the same.
C15_SameOrderOnEveryScanPath ==
    /\ panel.built => panel.order = CatalogueOrder
    /\ export.n > 0 => (export.order = CatalogueOrder /\ export.order = panel.order)

\* C16: the key sets of the cells of distinct checks are pairwise disjoint,
\* whatever the fact outcomes, so the merge of the ten cells into the sheet
\* overwrites no value written by another check (every key keeps the value
\* of the one cell that holds it) and the merged sheet is the same in
\* whatever order the cells are merged.
C16_KeySetsDisjoint ==
    export.n > 0 =>
        /\ \A i \in GuardItems : \A j \in GuardItems \ {i} :
              DOMAIN export.cells[i] \cap DOMAIN export.cells[j] = {}
        /\ \A i \in GuardItems : \A k \in DOMAIN export.cells[i] :
              export.sheet[k] = export.cells[i][k]
        /\ sheet_of(CatalogueOrder, export.cells, <<>>) = export.sheet
        /\ sheet_of(rev(CatalogueOrder), export.cells, <<>>) = export.sheet

\* an export on a host where some commands fail: the sheet holds the 23
\* keys of the ten cells
C16_Witness ==
    /\ export.n > 0
    /\ sys.fail # {}
    /\ Cardinality(DOMAIN export.sheet) = 23

\* C17: the Port check holds no listener past its probe: when a port is
\* probed the scanner holds no listener of an earlier probe, during a probe
\* it holds at most one, after each probe and when the check returns it
\* holds none, so a port that was free before the check is free after it.
C17_PortListenersReleased ==
    Called("Port") =>
        /\ [i \in 1..Len(last.probes) |-> last.probes[i].port] = tcp_port_list
        /\ \A i \in 1..Len(last.probes) :
              /\ last.probes[i].before = {}
              /\ Cardinality(last.probes[i].bound) <= 1
              /\ last.probes[i].after = {}
        /\ held = {}
        /\ \A p \in Ports \ sys.occupied : bind(sys, held, p)

\* a Port check on a host where only port 135 is in use: the probe of 3389
\* bound a listener, and none is held afterwards
C17_Witness ==
    /\ Called("Port")
    /\ sys.occupied = {135}
    /\ last.probes[1].bound = {}
    /\ last.probes[6].bound = {3389}
    /\ held = {}

\* C18: the findings the panel shows are computed once, when the panel is
\* built at program start, before any click; a Scan or a Back click invokes
\* no check (the cells, the exported sheet and the listeners stay as they
\* are), so once the program runs the findings never change, whatever is
\* clicked and however the host changes; only an Export click scans again.
C18_PanelComputedOnceAtStart ==
    [][ /\ gui.pc = "boot" =>
              /\ ~(ScanClick \/ BackClick \/ ExportClick)
              /\ gui'.pc = "run" =>
                    /\ panel'.built
                    /\ panel'.rows =
                          panel_rows(run_checks(CatalogueOrder, sys, NoRun({})).cells)
        /\ gui.pc = "run" => panel' = panel
        /\ (ScanClick \/ BackClick) => (export' = export /\ held' = held)
        /\ export' # export => ExportClick
      ]_vars

\* the panel is shown and an export has been made after the host changed:
\* the panel still shows the findings of the start, which differ from the
\* exported ones
C18_Witness ==
    /\ gui.pc = "run" /\ gui.panel
    /\ changes > 0
    /\ export.n > 0
    /\ \E i \in GuardItems : panel.cells[i] # export.cells[i]

\* C19: while the program runs exactly one of the Scan button and the panel
\* is visible: at first the button; a Scan click shows the panel and hides
\* the button, a Back click hides the panel and shows the button, an Export
\* click changes neither.
C19_ExactlyOneVisible ==
    [][ /\ gui'.pc = "run" => (gui'.scanbtn # gui'.panel)
        /\ (gui.pc = "boot" /\ gui'.pc = "run") => (gui'.scanbtn /\ ~gui'.panel)
        /\ ScanClick => (gui'.panel /\ ~gui'.scanbtn)
        /\ BackClick => (~gui'.panel /\ gui'.scanbtn)
        /\ (ExportClick /\ gui'.pc = "run") =>
              (gui'.panel = gui.panel /\ gui'.scanbtn = gui.scanbtn)
      ]_vars

\* Scan, Export and Back were clicked: the button is visible again and the
\* panel hidden
C19_Witness ==
    /\ gui.pc = "run"
    /\ export.n > 0
    /\ gui.scanbtn /\ ~gui.panel

====
